---------------------------- MODULE Spec2Model ----------------------------
(***************************************************************************)
(* Model of fec_monitor.py: the FEC contribution monitor.                  *)
(*                                                                         *)
(* monitor_contributions loads its configuration, fetches the recent       *)
(* contributions of every watched contributor (get_fec_contributions),     *)
(* collects them in a dict keyed by contributor name, and mails one digest *)
(* (format_email_body, send_email) when any contributor has a record.      *)
(*                                                                         *)
(* Time is counted in days.  A string the code parses (strptime, float,    *)
(* int) is a record [parses, value]: parsing yields the value or raises.   *)
(* A Python call is modelled by its Result: the exception it raises (or    *)
(* NoException) and the value it returns.                                  *)
(***************************************************************************)
EXTENDS Integers, Sequences, FiniteSets, TLC

VARIABLES
    pc,                             \* position of monitor_contributions
    contributors,                   \* the registry (list of Contributor)
    idx,                            \* position of the fetch loop in the registry
    now,                            \* datetime.now(), in days
    contributions_by_contributor,   \* the dict built by the loop
    fetch_calls,                    \* history: one entry per get_fec_contributions call
    send_calls,                     \* history: one entry per send_email call
    pending_email,                  \* the digest handed to send_email
    outcome,                        \* what monitor_contributions returned
    escaped,                        \* an exception left monitor_contributions
    requests_version,               \* the installed requests package (the repository pins none)
    f_contributor, f_response, f_now, f_result   \* one isolated get_fec_contributions call

vars == <<pc, contributors, idx, now, contributions_by_contributor, fetch_calls,
          send_calls, pending_email, outcome, escaped, requests_version,
          f_contributor, f_response, f_now, f_result>>

orchestrator_vars == <<contributors, idx, now, contributions_by_contributor,
                       fetch_calls, send_calls, pending_email, outcome, escaped>>

fetcher_vars == <<f_contributor, f_response, f_now, f_result>>

---------------------------------------------------------------------------
(* Bounds of the model *)

MaxContributors == 2

MaxResults == 2

MaxTicks == 1

(* Program constants *)

days_back_load == 14

days_back_contrib == 180

---------------------------------------------------------------------------
(* Python values *)

None == "<None>"

Str(v) == [parses |-> TRUE, value |-> v]

BadStr == [parses |-> FALSE, value |-> 0]

NoException == [type |-> "none", message |-> ""]

Exc(t, m) == [type |-> t, message |-> m]

Return(v) == [raised |-> NoException, value |-> v]

Raise(e) == [raised |-> e, value |-> None]

\* what a network failure and a non-2xx status raise
TransportErrors == {"ConnectionError", "HTTPError"}

\* requests.exceptions.RequestException and its subclasses; since requests 2.27
\* the JSONDecodeError of response.json() is one of them
RequestExceptions == TransportErrors \cup {"JSONDecodeError"}

\* what malformed data raises: a body that is not JSON, a missing key, an
\* unparsable string
ParseErrors == {"JSONDecodeError", "KeyError", "ValueError"}

\* response.json() on a body that is not JSON raises
\* requests.exceptions.JSONDecodeError since 2.27, a plain ValueError before
RequestsVersions == {"2.27+", "<2.27"}

SeqsUpTo(S, n) == UNION {[1..k -> S] : k \in 0..n}

SeqRange(s) == {s[i] : i \in 1..Len(s)}

---------------------------------------------------------------------------
(* The registry *)

Contributor(n, e) == [name |-> n, employer |-> e]

NamePool == <<"Sundar Pichai", "Kent Walker", "Thomas Kurian", "Jen Fitzpatrick">>

Names == {NamePool[i] : i \in 1..(IF MaxContributors < Len(NamePool)
                                  THEN MaxContributors ELSE Len(NamePool))}

Registries == {r \in SeqsUpTo({Contributor(n, "Google") : n \in Names}, MaxContributors) :
                 Len(r) >= 1}

NameUnique(r) == \A i, j \in 1..Len(r) : r[i].name = r[j].name => i = j

---------------------------------------------------------------------------
(* The API's answers *)

\* the first clock reading of a run: day 0 is the start of its 180-day query window
FirstNow == days_back_contrib

LastNow == FirstNow + MaxTicks

\* load dates around the first window: min_load_date = FirstNow - days_back_load
StaleLoad == FirstNow - days_back_load - 1

EdgeLoad == FirstNow - days_back_load

FreshLoad == FirstNow - days_back_load + 1

OldContribDate == FirstNow - days_back_contrib + 1

RecentContribDate == FirstNow

RawRecord(ld, cd, amt, emp, com) ==
    [load_date |-> ld, contribution_receipt_date |-> cd,
     contribution_receipt_amount |-> amt, contributor_name |-> "PICHAI, SUNDAR",
     contributor_employer |-> emp, committee |-> com]

Committee(n) == [present |-> TRUE, name |-> n]

NoCommittee == [present |-> FALSE, name |-> ""]

GoodRecord == RawRecord(Str(FreshLoad), Str(OldContribDate), Str(250),
                        "GOOGLE", Committee("ACTBLUE"))

NullEmployerRecord == RawRecord(Str(FreshLoad), Str(RecentContribDate), Str(1000),
                                None, Committee("ACTBLUE"))

BlankEmployerRecord == RawRecord(Str(FreshLoad + 1), Str(RecentContribDate), Str(250),
                                 "", Committee("WINRED"))

StaleRecord == RawRecord(Str(StaleLoad), Str(RecentContribDate), Str(250),
                         "GOOGLE", Committee("ACTBLUE"))

EdgeRecord == RawRecord(Str(EdgeLoad), Str(RecentContribDate), Str(250),
                        "GOOGLE", Committee("ACTBLUE"))

BadLoadDateRecord == RawRecord(BadStr, Str(RecentContribDate), Str(250),
                               "GOOGLE", Committee("ACTBLUE"))

BadContribDateRecord == RawRecord(Str(FreshLoad + 1), BadStr, Str(250),
                                  "GOOGLE", Committee("ACTBLUE"))

StaleBadContribDateRecord == RawRecord(Str(StaleLoad), BadStr, Str(250),
                                       "GOOGLE", Committee("ACTBLUE"))

BadAmountRecord == RawRecord(Str(FreshLoad + 1), Str(RecentContribDate), BadStr,
                             "GOOGLE", Committee("ACTBLUE"))

NoCommitteeRecord == RawRecord(Str(FreshLoad + 1), Str(RecentContribDate), Str(250),
                               "GOOGLE", NoCommittee)

RawRecords == {GoodRecord, NullEmployerRecord, BlankEmployerRecord, StaleRecord,
               EdgeRecord, BadLoadDateRecord, BadContribDateRecord,
               StaleBadContribDateRecord, BadAmountRecord, NoCommitteeRecord}

\* the records the orchestrator's runs draw from
LoopRecords == {GoodRecord, StaleRecord, BadContribDateRecord}

ConnectionFailure == [kind |-> "connection_error", has_results |-> FALSE, results |-> <<>>]

HttpFailure == [kind |-> "http_error", has_results |-> FALSE, results |-> <<>>]

NotJson == [kind |-> "not_json", has_results |-> FALSE, results |-> <<>>]

JsonWithoutResults == [kind |-> "json", has_results |-> FALSE, results |-> <<>>]

JsonResults(rs) == [kind |-> "json", has_results |-> TRUE, results |-> rs]

Responses(records) ==
    {ConnectionFailure, HttpFailure, NotJson, JsonWithoutResults}
      \cup {JsonResults(rs) : rs \in SeqsUpTo(records, MaxResults)}

---------------------------------------------------------------------------
(* get_fec_contributions *)

InWindowInclusive(load_date, min_load_date) == load_date >= min_load_date

InWindow(load_date, min_load_date) == load_date > min_load_date

strptime(s) ==
    IF s.parses THEN Return(s.value)
    ELSE Raise(Exc("ValueError", "time data does not match format"))

float(s) ==
    IF s.parses THEN Return(s.value)
    ELSE Raise(Exc("ValueError", "could not convert string to float"))

EmployerAsReported(e) == e

EmployerOrDefault(e) == IF e = None \/ e = "" THEN "Not reported" ELSE e

\* Contribution(date=..., amount=..., ..., committee_name=result['committee']['name'], ...)
MakeContribution(result, load_date) ==
    LET d == strptime(result.contribution_receipt_date)
        a == float(result.contribution_receipt_amount)
    IN  IF d.raised # NoException THEN Raise(d.raised)
        ELSE IF a.raised # NoException THEN Raise(a.raised)
        ELSE IF ~result.committee.present THEN Raise(Exc("KeyError", "'committee'"))
        ELSE Return([date |-> d.value, amount |-> a.value,
                     contributor_name |-> result.contributor_name,
                     employer |-> EmployerOrDefault(result.contributor_employer),
                     committee_name |-> result.committee.name,
                     load_date |-> load_date])

RECURSIVE ParseResults(_, _, _)
\* for result in data['results']: ...
ParseResults(results, min_load_date, contributions) ==
    IF results = <<>> THEN Return(contributions)
    ELSE LET result == Head(results)
             ld == strptime(result.load_date)
         IN  IF ld.raised # NoException THEN Raise(ld.raised)
             ELSE IF InWindow(ld.value, min_load_date)
                  THEN LET c == MakeContribution(result, ld.value)
                       IN  IF c.raised # NoException THEN Raise(c.raised)
                           ELSE ParseResults(Tail(results), min_load_date,
                                             Append(contributions, c.value))
                  ELSE ParseResults(Tail(results), min_load_date, contributions)

\* data = response.json() on a body that is not JSON
JsonError ==
    IF requests_version = "2.27+"
    THEN Exc("JSONDecodeError", "Expecting value: line 1 column 1 (char 0)")
    ELSE Exc("ValueError", "Expecting value: line 1 column 1 (char 0)")

\* the body of the try block
FetchAndParse(response, end_date) ==
    LET min_load_date == end_date - days_back_load
    IN  IF response.kind = "connection_error"
        THEN Raise(Exc("ConnectionError", "connection failed"))
        ELSE IF response.kind = "http_error"
        THEN Raise(Exc("HTTPError", "500 Server Error"))
        ELSE IF response.kind = "not_json" THEN Raise(JsonError)
        ELSE IF ~response.has_results THEN Raise(Exc("KeyError", "'results'"))
        ELSE ParseResults(response.results, min_load_date, <<>>)

CatchesNothing(e) == FALSE

\* except requests.exceptions.RequestException
IsRequestException(e) == e.type \in RequestExceptions

\* [error: what the try block raised; raised: what reaches the caller; value: the list]
get_fec_contributions(contributor, response, end_date) ==
    LET r == FetchAndParse(response, end_date)
    IN  IF r.raised # NoException /\ IsRequestException(r.raised)
        THEN [error |-> r.raised, raised |-> NoException, value |-> <<>>]
        ELSE [error |-> r.raised, raised |-> r.raised, value |-> r.value]

---------------------------------------------------------------------------
(* The dict contributions_by_contributor: insertion-ordered [key, value] items *)

DictKeys(d) == [i \in 1..Len(d) |-> d[i].key]

DictValues(d) == [i \in 1..Len(d) |-> d[i].value]

DictHas(d, k) == \E i \in 1..Len(d) : d[i].key = k

DictGet(d, k) == d[CHOOSE i \in 1..Len(d) : d[i].key = k].value

DictSetDefault(d, k, v) ==
    IF DictHas(d, k) THEN d ELSE Append(d, [key |-> k, value |-> v])

\* d[k] = v
DictSet(d, k, v) ==
    IF DictHas(d, k)
    THEN [i \in 1..Len(d) |-> IF d[i].key = k THEN [key |-> k, value |-> v] ELSE d[i]]
    ELSE Append(d, [key |-> k, value |-> v])

---------------------------------------------------------------------------
(* format_email_body and send_email *)

strftime(t, format) == <<format, t>>

FormatAmount(a) == <<"$", a, ",.2f">>

Row(c) == [date |-> strftime(c.date, "%Y-%m-%d"),
           amount |-> FormatAmount(c.amount),
           committee |-> c.committee_name,
           employer |-> c.employer,
           load_date |-> strftime(c.load_date, "%Y-%m-%d %H:%M:%S")]

Section(item) ==
    IF item.value # <<>>
    THEN [kind |-> "table", contributor |-> item.key,
          rows |-> [i \in 1..Len(item.value) |-> Row(item.value[i])]]
    ELSE [kind |-> "none", contributor |-> item.key, rows |-> <<>>]

FormatNonEmptyOnly(d) ==
    LET nonempty == SelectSeq(d, LAMBDA item : item.value # <<>>)
    IN  [i \in 1..Len(nonempty) |-> Section(nonempty[i])]

\* one section per item of the dict, in the dict's order
format_email_body(d) == [i \in 1..Len(d) |-> Section(d[i])]

AlwaysTrue(d) == TRUE

\* any(contributions_by_contributor.values())
AnyContributions(d) == \E i \in 1..Len(d) : DictValues(d)[i] # <<>>

SendSwallows(smtp_ok) == Return(None)

\* the SMTP session either delivers or raises, and the except clause re-raises
send_email(smtp_ok) ==
    IF smtp_ok THEN Return(None)
    ELSE Raise(Exc("SMTPException", "smtp failure"))

---------------------------------------------------------------------------
(* monitor_contributions *)

NoOutcome == [status |-> 0, body |-> <<>>]

AlertSent == [status |-> 200, body |-> <<"Alert sent successfully">>]

NothingNew == [status |-> 200, body |-> <<"No new contributions found">>]

\* return f"Error: {str(e)}", 500
ErrorOutcome(e) == [status |-> 500, body |-> <<"Error: ", e.message>>]

CatchesRequestErrorsOnly(e) == e.type \in TransportErrors

\* except Exception
TopLevelCatches(e) == e.type # "none"

Environments == [PROJECT_ID : BOOLEAN, NOTIFICATION_EMAIL : BOOLEAN,
                 secrets : SUBSET {"fec-api-key", "smtp-password"},
                 SMTP_PORT : {"unset", "587", "smtp"}]

\* lines 144-158: the first step that fails raises
LoadConfig(env) ==
    IF ~env.PROJECT_ID THEN Raise(Exc("KeyError", "'PROJECT_ID'"))
    ELSE IF ~env.NOTIFICATION_EMAIL THEN Raise(Exc("KeyError", "'NOTIFICATION_EMAIL'"))
    ELSE IF "fec-api-key" \notin env.secrets
    THEN Raise(Exc("NotFound", "Secret [fec-api-key] not found"))
    ELSE IF "smtp-password" \notin env.secrets
    THEN Raise(Exc("NotFound", "Secret [smtp-password] not found"))
    ELSE IF env.SMTP_PORT = "smtp"
    THEN Raise(Exc("ValueError", "invalid literal for int() with base 10: 'smtp'"))
    ELSE Return(None)

ReverseOrder(registry) == [i \in 1..Len(registry) |-> registry[Len(registry) + 1 - i]]

\* for contributor in contributors
LoopOrder(registry) == registry

\* the try/except around the whole function: an exception ends the run
Fail(e) ==
    /\ pc' = "done"
    /\ IF TopLevelCatches(e)
       THEN outcome' = ErrorOutcome(e) /\ escaped' = FALSE
       ELSE outcome' = NoOutcome /\ escaped' = TRUE

Configure ==
    /\ pc = "config"
    /\ \E env \in Environments :
         LET r == LoadConfig(env)
         IN  IF r.raised # NoException
             THEN Fail(r.raised)
             ELSE pc' = "loop" /\ UNCHANGED <<outcome, escaped>>
    /\ UNCHANGED <<contributors, idx, now, contributions_by_contributor,
                   fetch_calls, send_calls, pending_email, requests_version>>
    /\ UNCHANGED fetcher_vars

\* one iteration of the loop: a blocking call of get_fec_contributions
Fetch ==
    /\ pc = "loop"
    /\ idx <= Len(contributors)
    /\ \E response \in Responses(LoopRecords), tick \in 0..1 :
         /\ now + tick <= LastNow
         /\ now' = now + tick
         /\ LET contributor == LoopOrder(contributors)[idx]
                r == get_fec_contributions(contributor, response, now + tick)
            IN  /\ fetch_calls' = Append(fetch_calls,
                       [contributor |-> contributor, error |-> r.error.type,
                        raised |-> r.raised.type,
                        returned |-> IF r.raised = NoException THEN r.value ELSE <<>>])
                /\ IF r.raised # NoException
                   THEN /\ Fail(r.raised)
                        /\ UNCHANGED <<idx, contributions_by_contributor>>
                   ELSE /\ contributions_by_contributor' =
                              DictSet(contributions_by_contributor, contributor.name, r.value)
                        /\ idx' = idx + 1
                        /\ UNCHANGED <<pc, outcome, escaped>>
    /\ UNCHANGED <<contributors, send_calls, pending_email, requests_version>>
    /\ UNCHANGED fetcher_vars

\* lines 208-214, up to the call of send_email
Decide ==
    /\ pc = "loop"
    /\ idx > Len(contributors)
    /\ IF AnyContributions(contributions_by_contributor)
       THEN /\ \E tick \in 0..1 :        \* l.210 reads the clock again
                 /\ now + tick <= LastNow
                 /\ now' = now + tick
            /\ pending_email' = [subject |-> <<"FEC Contribution Alert - ",
                                               strftime(now', "%Y-%m-%d")>>,
                                 html |-> format_email_body(contributions_by_contributor)]
            /\ pc' = "send"
            /\ UNCHANGED <<outcome, escaped>>
       ELSE /\ pc' = "done"
            /\ outcome' = NothingNew
            /\ UNCHANGED <<now, pending_email, escaped>>
    /\ UNCHANGED <<contributors, idx, contributions_by_contributor,
                   fetch_calls, send_calls, requests_version>>
    /\ UNCHANGED fetcher_vars

\* the blocking call of send_email and the return after it
Send ==
    /\ pc = "send"
    /\ \E smtp_ok \in BOOLEAN :
         LET r == send_email(smtp_ok)
         IN  /\ send_calls' = Append(send_calls,
                    [email |-> pending_email, smtp_ok |-> smtp_ok,
                     raised |-> r.raised.type])
             /\ IF r.raised # NoException
                THEN Fail(r.raised)
                ELSE pc' = "done" /\ outcome' = AlertSent /\ UNCHANGED escaped
    /\ UNCHANGED <<contributors, idx, now, contributions_by_contributor,
                   fetch_calls, pending_email, requests_version>>
    /\ UNCHANGED fetcher_vars

NoEmail == [subject |-> <<>>, html |-> <<>>]

NoCall == [error |-> NoException, raised |-> NoException, value |-> <<>>]

IdleFetcher ==
    /\ f_contributor = Contributor(NamePool[1], "Google")
    /\ f_response = JsonResults(<<>>)
    /\ f_now = FirstNow
    /\ f_result = NoCall

InitRun ==
    /\ pc = "config"
    /\ idx = 1
    /\ now = FirstNow
    /\ contributions_by_contributor = <<>>
    /\ fetch_calls = <<>>
    /\ send_calls = <<>>
    /\ pending_email = NoEmail
    /\ outcome = NoOutcome
    /\ escaped = FALSE
    /\ requests_version \in RequestsVersions
    /\ IdleFetcher

\* the registry as the code declares it: every name once
Init ==
    /\ contributors \in {r \in Registries : NameUnique(r)}
    /\ InitRun

Next == Configure \/ Fetch \/ Decide \/ Send

Spec == Init /\ [][Next]_vars

\* any registry, names repeated or not
InitAnyRegistry ==
    /\ contributors \in Registries
    /\ InitRun

SpecAnyRegistry == InitAnyRegistry /\ [][Next]_vars

---------------------------------------------------------------------------
(* One call of get_fec_contributions on its own *)

InitFetcher ==
    /\ pc = "call"
    /\ contributors = <<Contributor(NamePool[1], "Google")>>
    /\ idx = 1
    /\ now = FirstNow
    /\ contributions_by_contributor = <<>>
    /\ fetch_calls = <<>>
    /\ send_calls = <<>>
    /\ pending_email = NoEmail
    /\ outcome = NoOutcome
    /\ escaped = FALSE
    /\ requests_version \in RequestsVersions
    /\ f_contributor = contributors[1]
    /\ f_response \in Responses(RawRecords)
    /\ f_now \in FirstNow..LastNow
    /\ f_result = NoCall

Call ==
    /\ pc = "call"
    /\ f_result' = get_fec_contributions(f_contributor, f_response, f_now)
    /\ pc' = "returned"
    /\ UNCHANGED <<f_contributor, f_response, f_now, requests_version>>
    /\ UNCHANGED orchestrator_vars

NextFetcher == Call

SpecFetcher == InitFetcher /\ [][NextFetcher]_vars

---------------------------------------------------------------------------
(* Properties *)

Calls == 1..Len(fetch_calls)

\* the fetch loop ran to its end: every registry entry fetched, no call raised
LoopFinished ==
    /\ Len(fetch_calls) = Len(contributors)
    /\ \A j \in Calls : fetch_calls[j].raised = "none"

\* the run got past the loop to the decision of lines 208-214
DecisionTaken == pc = "send" \/ send_calls # <<>> \/ outcome.status = 200

IsErrorOutcome(o) == o.status = 500 /\ Len(o.body) = 2 /\ o.body[1] = "Error: "

\* C1: a fetch that hits a transport error (connection failure or non-2xx
\* status) raises nothing to monitor_contributions and leaves the empty list
\* as that contributor's group; the run goes on from it: the entries before it
\* were fetched, and the next registry entry is fetched next (its call follows,
\* or the loop stands at it), so the error itself never ends the run.
C1_TransportErrorDegrades ==
    \A i \in Calls :
      fetch_calls[i].error \in TransportErrors =>
        /\ fetch_calls[i].raised = "none"
        /\ fetch_calls[i].returned = <<>>
        /\ DictHas(contributions_by_contributor, fetch_calls[i].contributor.name)
        /\ DictGet(contributions_by_contributor, fetch_calls[i].contributor.name) = <<>>
        /\ \A j \in 1..i : fetch_calls[j].contributor = contributors[j]
        /\ i < Len(contributors) =>
             \/ pc = "loop" /\ idx = i + 1 /\ Len(fetch_calls) = i
             \/ Len(fetch_calls) > i /\ fetch_calls[i + 1].contributor = contributors[i + 1]
        /\ i = Len(contributors) =>
             pc \in {"loop", "send", "done"} /\ (pc = "done" => DecisionTaken)

C1_Witness ==
    /\ pc = "done"
    /\ Len(contributors) = 2
    /\ Len(fetch_calls) = 2
    /\ fetch_calls[1].error = "ConnectionError"
    /\ fetch_calls[2].returned # <<>>
    /\ outcome = AlertSent

\* C2: a fetch whose response fails to parse (a body that is not JSON, a
\* malformed date or amount, a missing 'results' or 'committee') returns the
\* empty list, raises nothing, and the run goes on instead of ending with the
\* 500 outcome.  Stated for requests 2.27 and later, where the body that is not
\* JSON does degrade: the other parse errors do not, whatever the version.
C2_ParseErrorDegrades ==
    requests_version = "2.27+" =>
      \A i \in Calls :
        fetch_calls[i].error \in ParseErrors =>
          /\ fetch_calls[i].raised = "none"
          /\ fetch_calls[i].returned = <<>>
          /\ idx > i
          /\ outcome.status # 500

Successful == pc = "returned" /\ f_result.error = NoException

\* the raw records loaded strictly after t, in their order
Retained(raw, t) ==
    LET LoadedAfter(r) == r.load_date.value > t
    IN  SelectSeq(raw, LoadedAfter)

\* C3: on a successful fetch the returned list is exactly the API's results
\* whose load_date is strictly after now - days_back_load, in the API's order,
\* whatever their contribution dates.
C3_FreshnessFilter ==
    Successful =>
      LET kept == Retained(f_response.results, f_now - days_back_load)
      IN  /\ Len(f_result.value) = Len(kept)
          /\ \A i \in 1..Len(kept) :
               /\ f_result.value[i].load_date = kept[i].load_date.value
               /\ f_result.value[i].date = kept[i].contribution_receipt_date.value
               /\ f_result.value[i].amount = kept[i].contribution_receipt_amount.value
               /\ f_result.value[i].committee_name = kept[i].committee.name
               /\ f_result.value[i].contributor_name = kept[i].contributor_name

C3_Witness ==
    /\ Successful
    /\ f_now = FirstNow
    /\ f_response.results = <<StaleRecord, GoodRecord>>
    /\ Len(f_result.value) = 1
    /\ f_result.value[1].date = OldContribDate
    /\ f_result.value[1].load_date = FreshLoad

\* C4: when the loop has finished and every group of the dict is empty, the
\* run sends nothing and ends with 200 "No new contributions found".
C4_NoAlertWhenAllEmpty ==
    (/\ LoopFinished
     /\ pc \in {"send", "done"}
     /\ \A i \in 1..Len(contributions_by_contributor) :
          contributions_by_contributor[i].value = <<>>)
      => /\ pc = "done"
         /\ send_calls = <<>>
         /\ outcome = NothingNew

C4_Witness ==
    /\ pc = "done"
    /\ outcome = NothingNew
    /\ Len(fetch_calls) = 2
    /\ send_calls = <<>>
    /\ fetch_calls[1].error = "HTTPError"

DigestCovers(html, d) ==
    /\ Len(html) = Len(d)
    /\ \A i \in 1..Len(d) :
         /\ html[i].contributor = d[i].key
         /\ d[i].value # <<>> =>
              html[i].kind = "table" /\ Len(html[i].rows) = Len(d[i].value)
         /\ d[i].value = <<>> => html[i].kind = "none"

\* C5: when the loop has finished with a non-empty group, the run calls
\* send_email exactly once, with a digest of one section per key of the dict:
\* a table of one row per record, or the "no recent contributions" line.
C5_OneDigestForAll ==
    /\ Len(send_calls) <= 1
    /\ (/\ pc = "done"
        /\ LoopFinished
        /\ \E i \in 1..Len(contributions_by_contributor) :
             contributions_by_contributor[i].value # <<>>)
         => /\ Len(send_calls) = 1
            /\ DigestCovers(send_calls[1].email.html, contributions_by_contributor)

C5_Witness ==
    /\ pc = "done"
    /\ Len(send_calls) = 1
    /\ Len(send_calls[1].email.html) = 2
    /\ send_calls[1].email.html[1].kind = "table"
    /\ Len(send_calls[1].email.html[1].rows) = 1
    /\ send_calls[1].email.html[2].kind = "none"

\* C6: a run ends with exactly one of the three outcomes and no exception
\* leaves monitor_contributions, whatever step fails; before the end there is
\* no outcome yet and a next step to take.
C6_ThreeOutcomes ==
    /\ ~escaped
    /\ pc = "done" => (outcome \in {AlertSent, NothingNew} \/ IsErrorOutcome(outcome))
    /\ pc # "done" => (outcome = NoOutcome /\ ENABLED Next)

C6_Witness ==
    /\ pc = "done"
    /\ IsErrorOutcome(outcome)
    /\ fetch_calls # <<>>
    /\ fetch_calls[Len(fetch_calls)].raised = "KeyError"

\* C7: a failed send_email raises, and the run then ends with the 500 outcome;
\* "Alert sent successfully" is only reported after a send_email that returned.
C7_SendFailureFailsRun ==
    /\ \A i \in 1..Len(send_calls) :
         ~send_calls[i].smtp_ok =>
           /\ send_calls[i].raised # "none"
           /\ pc = "done"
           /\ IsErrorOutcome(outcome)
    /\ outcome = AlertSent =>
         /\ Len(send_calls) = 1
         /\ send_calls[1].smtp_ok
         /\ send_calls[1].raised = "none"

C7_Witness ==
    /\ pc = "done"
    /\ Len(send_calls) = 1
    /\ ~send_calls[1].smtp_ok
    /\ outcome = ErrorOutcome(Exc("SMTPException", "smtp failure"))

\* C8: the fetch calls follow the registry: call i is for registry entry i, so
\* no entry is fetched twice or retried, and once the decision is taken every
\* entry has been fetched; nothing is sent before that.
C8_FetchesFollowRegistry ==
    /\ Len(fetch_calls) <= Len(contributors)
    /\ \A i \in Calls : fetch_calls[i].contributor = contributors[i]
    /\ DecisionTaken => Len(fetch_calls) = Len(contributors)

C8_Witness ==
    /\ send_calls # <<>>
    /\ Len(contributors) >= 2
    /\ fetch_calls[1].error \in TransportErrors
    /\ [i \in Calls |-> fetch_calls[i].contributor] = contributors

WellFormed(r) ==
    /\ r.load_date.parses
    /\ r.contribution_receipt_date.parses
    /\ r.contribution_receipt_amount.parses
    /\ r.committee.present

\* C9: a retained record whose raw employer is null or empty has employer
\* "Not reported", any other keeps its employer; no retained record has a null
\* or empty employer, and a response that is well formed but for missing
\* employers loses no record.
C9_MissingEmployerDefault ==
    /\ Successful =>
         /\ \A i \in 1..Len(f_result.value) :
              f_result.value[i].employer \notin {None, ""}
         /\ LET kept == Retained(f_response.results, f_now - days_back_load)
            IN  \A i \in 1..Len(kept) :
                  /\ i <= Len(f_result.value)
                  /\ f_result.value[i].employer =
                       (IF kept[i].contributor_employer \in {None, ""}
                        THEN "Not reported" ELSE kept[i].contributor_employer)
    /\ (/\ pc = "returned"
        /\ f_response.kind = "json" /\ f_response.has_results
        /\ \A i \in 1..Len(f_response.results) : WellFormed(f_response.results[i]))
         => f_result.raised = NoException

C9_Witness ==
    /\ Successful
    /\ f_response.results = <<NullEmployerRecord, BlankEmployerRecord>>
    /\ Len(f_result.value) = 2
    /\ f_result.value[1].employer = "Not reported"
    /\ f_result.value[2].employer = "Not reported"

RegistryNames == {contributors[i].name : i \in 1..Len(contributors)}

LastEntry(n) ==
    CHOOSE i \in 1..Len(contributors) :
      /\ contributors[i].name = n
      /\ \A j \in 1..Len(contributors) : contributors[j].name = n => j <= i

\* C10: after the loop the dict holds one entry per distinct registry name,
\* whose value is what the last registry entry of that name returned; when all
\* those last results are empty the run sends nothing, whatever earlier
\* entries of the same names returned.
C10_LastEntryWins ==
    LoopFinished =>
      /\ Len(contributions_by_contributor) = Cardinality(RegistryNames)
      /\ SeqRange(DictKeys(contributions_by_contributor)) = RegistryNames
      /\ \A n \in RegistryNames :
           DictGet(contributions_by_contributor, n) = fetch_calls[LastEntry(n)].returned
      /\ (pc = "done" /\ \A n \in RegistryNames : fetch_calls[LastEntry(n)].returned = <<>>)
           => (outcome = NothingNew /\ send_calls = <<>>)

C10_Witness ==
    /\ pc = "done"
    /\ Len(contributors) = 2
    /\ contributors[1].name = contributors[2].name
    /\ LoopFinished
    /\ fetch_calls[1].returned # <<>>
    /\ fetch_calls[2].returned = <<>>
    /\ outcome = NothingNew

=============================================================================
